---- MODULE Spec2Model ----
(***************************************************************************)
(* Notification delivery lifecycle of ztp2: the service layer              *)
(* (src/service.py) hands schedule / force / cancel requests to Celery     *)
(* tasks (src/tasks.py); delivery tasks run on workers against the         *)
(* notifications table (src/models.py).                                    *)
(*                                                                         *)
(* Every step of a task that reads the row (a query, or the refresh of an  *)
(* instance expired by the previous commit) or writes it (a commit) is an  *)
(* action of its own, so that workers interleave as they do on separate    *)
(* processes.  A commit writes only the columns whose value differs from   *)
(* the value the session loaded (SQLAlchemy's unit of work).  Tasks are    *)
(* executed by a pool of worker processes of concurrency 1; the service    *)
(* calls come from the API process and interleave freely.                  *)
(*                                                                         *)
(* Specifications:                                                         *)
(*   Spec          the lifecycle of push notifications, MaxWorkers workers *)
(*   SpecPar       the same with one worker more                           *)
(*   SpecSchedule  schedule and force requests with their timezone, time   *)
(*                 and channel (validation, eta, task ids)                 *)
(*   SpecOutage    schedule and force requests under a broker that may     *)
(*                 fail to take a message                                  *)
(*   SpecDelivery  delivery executions on rows in any status and on an id  *)
(*                 that is not stored                                      *)
(*   SpecTime      TimeUtils.get_next_appropriate_time on instants and     *)
(*                 zones (src/utils/time_utils.py)                         *)
(*   SpecValidate  the two NotificationValidator classes on requests       *)
(*                 (src/notification_validator.py,                         *)
(*                 src/validators/notification_validator.py, src/policy.py)*)
(*   SpecRevoke    revoke_task against a queue whose calls return or raise *)
(*   SpecLive      a scheduled notification under a queue that fires every *)
(*                 task (weak fairness of the task steps)                  *)
(*   SpecPriority  the priority weighting, which src/ does not contain,    *)
(*                 as the design document gives it                         *)
(*   SpecMetrics   concurrent record calls on the metrics counters; the    *)
(*                 record operation is not in src/ and follows the design  *)
(*                 document                                                *)
(*   SpecQuery     the metrics query (src/service.py, src/metrics.py)      *)
(***************************************************************************)
EXTENDS Integers, FiniteSets, Sequences, TLC

\* ------------------------------------------------------------- constants
MAX_RETRY_ATTEMPTS == 3
APPROPRIATE_HOURS_START == 8
APPROPRIATE_HOURS_END == 23
MIN_PRIORITY == 1
MAX_PRIORITY == 10
MAX_LENGTH == 2000

\* ---------------------------------------------------------------- bounds
MaxTasks == 4
MaxNotifs == 1
MaxWorkers == 1
\* the clock readings and requested times lie in days 0..MaxDay
MaxDay == 1
\* threads or processes that record metrics, and the calls each of them makes
MaxWriters == 2
MaxRecords == 2

TaskIds == 1..MaxTasks
NotifIds == 1..MaxNotifs

\* NotificationStatus values
SCHEDULED == "scheduled"
PROCESSING == "processing"
DELIVERED == "delivered"
FAILED == "failed"
CANCELLED == "cancelled"

\* DeliveryChannel values
PUSH == "push"
EMAIL == "email"

Channels == {PUSH, EMAIL}

\* a row that is not in the table: query(...).first() returns None
ABSENT == "absent"

VARIABLES
    db,        \* notifications table: id -> row
    tasks,     \* celery tasks: task id -> kind, position, session-local copy
    nextId,    \* next celery task id (task ids are fresh)
    nextNotif, \* next notification id (uuid4 is fresh)
    calls,     \* per notification: invocations of the channel delivery method
    resp,      \* answer of the service call made by the last step, if any
    workers,   \* number of worker processes started (fixed for a run)
    inp,       \* argument of the function under evaluation, if any
    out,       \* results of the function under evaluation, in order
    stats,     \* metrics: counter of each (server, channel, status) key
    lock,      \* metrics: the writer that has exclusive access to a key, or 0
    writers,   \* metrics: position of each writer in its record call
    made       \* metrics: record calls made so far with each key

\* the state of the metrics collector
metrics == <<stats, lock, writers, made>>

\* what no task, request or worker step changes
env == <<workers, inp, out, metrics>>

vars == <<db, tasks, nextId, nextNotif, calls, resp, workers, inp, out,
          stats, lock, writers, made>>

\* scheduled_time values that are not a local date and time: None (or the
\* empty string), and a string datetime.fromisoformat rejects
NoTime == -1
Malformed == -2

\* apply_async without eta / without countdown
NoEta == -1
NoCountdown == -1

NoRow == [status |-> ABSENT, attempt_count |-> 0, task_id |-> 0, channel |-> "none",
          timezone |-> "none", scheduled_time |-> NoTime]

\* keyword arguments of schedule_notification.delay(...) not yet given
NoArgs == [channel |-> "none", timezone |-> "none", scheduled_time |-> NoTime, now |-> 0]

NoTask == [kind |-> "none", n |-> 0, pc |-> "none", retries |-> 0,
           ls |-> "none", lc |-> 0, lt |-> 0, ret |-> "none",
           args |-> NoArgs, chan |-> "none", eta |-> NoEta, countdown |-> NoCountdown,
           rv |-> "none"]

\* id is the task id the service hands back to its caller
NoResp == [op |-> "none", n |-> 0, result |-> "none", id |-> 0]

\* a constructor that counts the creation as an attempt
NewNotification_OneAttempt(channel, timezone, scheduled_datetime) ==
    [status |-> SCHEDULED, attempt_count |-> 1, task_id |-> 0, channel |-> channel,
     timezone |-> timezone, scheduled_time |-> scheduled_datetime]

\* Notification.__init__ defaults: status SCHEDULED, attempt_count 0, no task_id
NewNotification(channel, timezone, scheduled_datetime) ==
    [status |-> SCHEDULED, attempt_count |-> 0, task_id |-> 0, channel |-> channel,
     timezone |-> timezone, scheduled_time |-> scheduled_datetime]

\* no function is under evaluation
NoInput == [fn |-> "none"]

Writers == 1..MaxWriters

\* the keys of the counters: the worker that ran the delivery, or the
\* scheduler process, with the channel and the outcome recorded
MetricKeys ==
    [server : {"worker.a"}, channel : {PUSH}, status : {DELIVERED, FAILED}]

NoKey == [server |-> "none", channel |-> "none", status |-> "none"]

\* nothing recorded, no record call under way
MetricsIdle ==
    /\ stats = [k \in MetricKeys |-> 0]
    /\ lock = [k \in MetricKeys |-> 0]
    /\ writers = [w \in Writers |-> [pc |-> "idle", key |-> NoKey, seen |-> 0,
                                      left |-> MaxRecords]]
    /\ made = [k \in MetricKeys |-> 0]

\* nothing scheduled, no task, no request made yet
Idle ==
    /\ MetricsIdle
    /\ db = [n \in NotifIds |-> NoRow]
    /\ tasks = [t \in TaskIds |-> NoTask]
    /\ nextId = 1
    /\ nextNotif = 1
    /\ calls = [n \in NotifIds |-> 0]
    /\ resp = NoResp

Init ==
    /\ Idle
    /\ workers = MaxWorkers
    /\ inp = NoInput
    /\ out = <<>>

\* ------------------------------------------------------ helper operators

\* a task that is waiting in the queue or running on a worker
Live(t) == tasks[t].pc \notin {"none", "done", "revoked"}

\* a task that occupies a worker
Running(t) == tasks[t].pc \notin {"none", "queued", "done", "revoked"}

\* a worker is free to take a task from the queue
WorkerFree == Cardinality({t \in TaskIds : Running(t)}) < workers

\* task ids that accepted requests will still allocate for delivery tasks
Pending ==
    Cardinality({t \in TaskIds :
        \/ tasks[t].kind = "schedule" /\ tasks[t].pc \in {"queued", "created"}
        \/ tasks[t].kind = "force" /\ tasks[t].pc \in {"queued", "revoke", "commit", "enqueue"}})

\* room for a request that needs k fresh task ids; callers stop sending
\* requests, also ones that will be rejected, once the ids are used up
Room(k) == nextId + Pending + k - 1 <= MaxTasks

NewTask(kind, n) == [NoTask EXCEPT !.kind = kind, !.n = n, !.pc = "queued"]

\* the task returned or raised: the session is closed, its copy is gone
Finish(t, ret) ==
    [tasks EXCEPT ![t] = [NoTask EXCEPT !.kind = tasks[t].kind, !.n = tasks[t].n,
                                        !.pc = "done", !.ret = ret]]

\* a commit emits UPDATE only for an attribute whose value differs from the loaded one
CommitStatus(row, loaded, new) ==
    IF new = loaded THEN row ELSE [row EXCEPT !.status = new]

\* ------------------------------------------------- guards taken from the code

\* a force check without the test of the status
ForceCheck_NoStateCheck(row) ==
    IF row.status = ABSENT THEN "NotFound"
    ELSE "success"

\* NotificationService.force_delivery: the synchronous checks before .delay()
ForceCheck(row) ==
    IF row.status = ABSENT THEN "NotFound"
    ELSE IF row.status # SCHEDULED THEN "InvalidState"
    ELSE "success"

\* a cancel check that accepts a notification whose attempt failed
CancelCheck_AcceptsFailed(row) ==
    IF row.status = ABSENT THEN "NotFound"
    ELSE IF row.status \notin {SCHEDULED, FAILED} THEN "InvalidState"
    ELSE "success"

\* a cancel check without the test of the status
CancelCheck_NoStateCheck(row) ==
    IF row.status = ABSENT THEN "NotFound"
    ELSE "success"

\* NotificationService.cancel_notification: the synchronous checks before .delay()
CancelCheck(row) ==
    IF row.status = ABSENT THEN "NotFound"
    ELSE IF row.status # SCHEDULED THEN "InvalidState"
    ELSE "success"

\* a force that always enqueues the push task
ForceChannel_AlwaysPush(row) == PUSH

\* force_immediate_delivery: channel = notification.channel
ForceChannel(row) == row.channel

\* tasks.py force_immediate_delivery / cancel_notification: the worker's re-check
ForceTaskAllowed(row) == row.status # ABSENT /\ row.status = SCHEDULED

CancelTaskAllowed(row) == row.status # ABSENT /\ row.status = SCHEDULED

\* session.query(Notification).filter(Notification.id == n).first()
Row(n) == IF n \in NotifIds THEN db[n] ELSE NoRow

\* a check that takes every id for a stored one
NotFound_Ignored(row) == FALSE

\* _handle_notification_delivery: the row is missing
NotFound(row) == row.status = ABSENT

\* the barrier left out: no status stops the execution
IsCancelled_Missing(row) == FALSE

\* _handle_notification_delivery: the check made before any delivery work
IsCancelled(row) == row.status = CANCELLED

\* the status written before the channel is called
StatusOnStart == PROCESSING

\* a success that leaves the status as it is
StatusOnSuccess_StaysProcessing == PROCESSING

\* the status written when the delivery method returned True
StatusOnSuccess == DELIVERED

\* the status written in the except branch, whether or not a retry follows
StatusOnFailure == FAILED

\* notification.attempt_count += 1
NextAttemptCount(c) == c + 1

\* if notification.attempt_count < MAX_RETRY_ATTEMPTS: retry
ShouldRetry(count) == count < MAX_RETRY_ATTEMPTS

\* Task.retry of a task declared with max_retries=MAX_RETRY_ATTEMPTS re-queues
\* the task unless request.retries + 1 exceeds max_retries
CeleryMayRetry(retries) == retries + 1 <= MAX_RETRY_ATTEMPTS

\* ------------------------------------------------------------ time and zones

\* Instants are minutes since 2024-10-26T00:00Z; a local date and time is the
\* number of minutes its wall clock shows since 2024-10-26 00:00.
DayMinutes == 24 * 60

UTC == "UTC"
WARSAW == "Europe/Warsaw"
NEW_YORK == "America/New_York"

\* pytz.all_timezones, the names used here
AllTimezones == {UTC, WARSAW, NEW_YORK}

\* Europe/Warsaw leaves summer time at 2024-10-27T01:00Z
WarsawDstEnd == DayMinutes + 60

\* dt.astimezone(pytz.timezone(z)): the offset in force at instant t
UtcOffset(z, t) ==
    CASE z = WARSAW -> IF t < WarsawDstEnd THEN 120 ELSE 60
      [] z = NEW_YORK -> -240
      [] OTHER -> 0

\* pytz.timezone(z).localize(naive): the offset given to wall-clock time w;
\* a time the clocks show twice is taken as standard time (is_dst=False)
LocalizeOffset(z, w) ==
    CASE z = WARSAW -> IF w - 60 >= WarsawDstEnd THEN 60 ELSE 120
      [] z = NEW_YORK -> -240
      [] OTHER -> 0

\* hour and calendar day a wall clock shows
HourOf(w) == (w \div 60) % 24
DayOf(w) == w \div DayMinutes

\* local_dt.hour of local_dt = dt.astimezone(local_tz)
LocalHour(t, z) == HourOf(t + UtcOffset(z, t))

\* TimeUtils.is_within_appropriate_hours
IsWithinAppropriateHours(t, z) ==
    APPROPRIATE_HOURS_START <= LocalHour(t, z) /\ LocalHour(t, z) < APPROPRIATE_HOURS_END

\* TimeUtils.get_next_appropriate_time.  local_dt keeps the tzinfo astimezone
\* gave it: timedelta and replace move the wall clock and leave the offset
\* of the original instant in place, and astimezone(UTC) subtracts that offset.
GetNextAppropriateTime(t, z) ==
    LET off == UtcOffset(z, t)
        local == t + off
        hour == HourOf(local)
    IN  IF hour >= APPROPRIATE_HOURS_END \/ hour < APPROPRIATE_HOURS_START
        THEN LET day == DayOf(local) + (IF hour >= APPROPRIATE_HOURS_END THEN 1 ELSE 0)
             IN  (day * DayMinutes + APPROPRIATE_HOURS_START * 60) - off
        ELSE local - off

\* ---------------------------------------------------------------- validation

\* a NotificationRequest has no priority attribute; another object may carry
\* one that is an int or is not
NoPriority == [kind |-> "missing", value |-> 0]

\* what a policy's validate does: "ok" when it returns, else the exception raised

\* TimeZonePolicy.validate
TimeZonePolicy(r) ==
    IF r.timezone \notin AllTimezones THEN "ValidationError" ELSE "ok"

\* TimeRangePolicy.validate: pytz.timezone(...) is evaluated before the string
\* is parsed, and only ValueError is turned into ValidationError
TimeRangePolicy(r) ==
    IF r.scheduled_time = NoTime THEN "ok"
    ELSE IF r.timezone \notin AllTimezones THEN "UnknownTimeZoneError"
    ELSE IF r.scheduled_time = Malformed THEN "ValidationError"
    ELSE IF r.scheduled_time - LocalizeOffset(r.timezone, r.scheduled_time) < r.now
         THEN "ValidationError"
    ELSE "ok"

\* PriorityPolicy.validate
PriorityPolicy(r) ==
    IF r.priority.kind = "missing" THEN "AttributeError"
    ELSE IF r.priority.kind # "int" THEN "ValidationError"
    ELSE IF r.priority.value < MIN_PRIORITY \/ r.priority.value > MAX_PRIORITY
         THEN "ValidationError"
    ELSE "ok"

\* ContentLengthPolicy.validate; content is modelled by its length
ContentLengthPolicy(r) ==
    IF r.content = 0 THEN "ValidationError"
    ELSE IF r.content > MAX_LENGTH THEN "ValidationError"
    ELSE "ok"

Policy(name, r) ==
    CASE name = "timezone" -> TimeZonePolicy(r)
      [] name = "time_range" -> TimeRangePolicy(r)
      [] name = "priority" -> PriorityPolicy(r)
      [] name = "content_length" -> ContentLengthPolicy(r)

\* src/notification_validator.py validate: the loop sits inside the try, so
\* the first ValidationError ends it; any other exception passes through
RECURSIVE RunFailFast(_, _, _)
RunFailFast(ps, r, i) ==
    IF i > Len(ps) THEN [raised |-> "none", rules |-> {}, ran |-> Len(ps)]
    ELSE LET o == Policy(ps[i], r) IN
         IF o = "ok" THEN RunFailFast(ps, r, i + 1)
         ELSE [raised |-> o, rules |-> IF o = "ValidationError" THEN {ps[i]} ELSE {},
               ran |-> i]

\* src/validators/notification_validator.py validate: the try sits inside the
\* loop and catches ValidationError only; any other exception passes through
RECURSIVE RunCollectAll(_, _, _, _)
RunCollectAll(ps, r, i, errors) ==
    IF i > Len(ps)
    THEN [raised |-> IF errors = {} THEN "none" ELSE "ValidationError",
          rules |-> errors, ran |-> Len(ps)]
    ELSE LET o == Policy(ps[i], r) IN
         IF o = "ok" THEN RunCollectAll(ps, r, i + 1, errors)
         ELSE IF o = "ValidationError" THEN RunCollectAll(ps, r, i + 1, errors \cup {ps[i]})
         ELSE [raised |-> o, rules |-> {}, ran |-> i]

\* self.policies of src/notification_validator.py
ServicePolicies == <<"timezone", "time_range">>

\* self.policies of src/validators/notification_validator.py
AllPolicies == <<"timezone", "time_range", "priority", "content_length">>

\* src/notification_validator.py NotificationValidator: raised is the exception
\* that leaves validate, rules the policies whose message it carries, ran the
\* number of policies evaluated
NotificationValidator(r) == RunFailFast(ServicePolicies, r, 1)

\* src/validators/notification_validator.py NotificationValidator
Validators_NotificationValidator(r) == RunCollectAll(AllPolicies, r, 1, {})

\* a service that enqueues without validating
ServiceValidate_Skipped(r) == [raised |-> "none", rules |-> {}, ran |-> 0]

\* NotificationService.schedule_*_notification: NotificationValidator(notification).validate()
ServiceValidate(r) == NotificationValidator(r)

\* ---------------------------------------------------------------- schedule

\* the keyword arguments the service passes to schedule_notification.delay
ArgsOf(r) ==
    [channel |-> r.channel, timezone |-> r.timezone,
     scheduled_time |-> r.scheduled_time, now |-> r.now]

\* schedule_notification: the instant handed to apply_async as eta
ScheduledDt(a) ==
    IF a.scheduled_time # NoTime
    THEN a.scheduled_time - LocalizeOffset(a.timezone, a.scheduled_time)
    ELSE a.now

\* the zone in which the database session reads a timestamp that carries none
\* (the TimeZone setting of the server; no code of the repository sets it)
DbTimeZone == UTC

\* Notification.__init__: scheduled_time = datetime.fromisoformat(scheduled_time)
\* when a string is given, else the clock reading.  The parsed value has no
\* zone; stored in the DateTime(timezone=True) column it denotes that wall
\* clock in the zone of the database session.
ScheduledDatetime(a) ==
    IF a.scheduled_time # NoTime
    THEN a.scheduled_time - LocalizeOffset(DbTimeZone, a.scheduled_time)
    ELSE a.now

\* task = schedule_notification.delay(...); return task.id: the caller gets
\* the id of the schedule_notification task
ScheduleHandle(schedule_task) == schedule_task

\* NotificationService.schedule_*_notification: validate, then
\* schedule_notification.delay(...)
ScheduleRequest(r) ==
    /\ LET v == ServiceValidate(r) IN
        IF v.raised = "none"
        THEN /\ Room(2)
             /\ Cardinality({t \in TaskIds : tasks[t].kind = "schedule"}) < MaxNotifs
             /\ tasks' = [tasks EXCEPT ![nextId] =
                            [NewTask("schedule", 0) EXCEPT !.args = ArgsOf(r)]]
             /\ nextId' = nextId + 1
             /\ resp' = [op |-> "schedule", n |-> 0, result |-> "success",
                          id |-> ScheduleHandle(nextId)]
        ELSE /\ Room(1)
             /\ resp' = [op |-> "schedule", n |-> 0, result |-> v.raised, id |-> 0]
             /\ UNCHANGED <<tasks, nextId>>
    /\ UNCHANGED <<db, nextNotif, calls>>
    /\ UNCHANGED env

\* schedule_notification: Notification(...); session.add; session.commit.
\* Notification.__init__ parses scheduled_time and raises on a malformed one.
ScheduleCreate(t) ==
    /\ tasks[t].kind = "schedule" /\ tasks[t].pc = "queued"
    /\ WorkerFree
    /\ nextNotif \in NotifIds
    /\ IF tasks[t].args.scheduled_time = Malformed
       THEN /\ tasks' = Finish(t, "raise")
            /\ UNCHANGED <<db, nextNotif>>
       ELSE /\ db' = [db EXCEPT ![nextNotif] =
                            NewNotification(tasks[t].args.channel, tasks[t].args.timezone,
                                            ScheduledDatetime(tasks[t].args))]
            /\ tasks' = [tasks EXCEPT ![t].n = nextNotif, ![t].pc = "created"]
            /\ nextNotif' = nextNotif + 1
    /\ resp' = NoResp
    /\ UNCHANGED <<nextId, calls>>
    /\ UNCHANGED env

\* schedule_notification: the eta is resolved (an unknown zone raises), then
\* channel_tasks[channel].apply_async(args=[notification_id], eta=scheduled_dt, ...)
ScheduleEnqueue(t) ==
    /\ tasks[t].kind = "schedule" /\ tasks[t].pc = "created"
    /\ nextId \in TaskIds
    /\ LET a == tasks[t].args IN
        IF a.scheduled_time # NoTime /\ a.timezone \notin AllTimezones
        THEN /\ tasks' = Finish(t, "raise")
             /\ UNCHANGED nextId
        ELSE IF a.channel \notin Channels
        THEN /\ tasks' = Finish(t, "False")
             /\ UNCHANGED nextId
        ELSE /\ tasks' = [tasks EXCEPT ![t].pc = "enqueued", ![t].lt = nextId,
                                       ![t].args = NoArgs,
                                       ![nextId] = [NewTask("deliver", tasks[t].n)
                                                        EXCEPT !.chan = a.channel,
                                                               !.eta = ScheduledDt(a)]]
             /\ nextId' = nextId + 1
    /\ resp' = NoResp
    /\ UNCHANGED <<db, nextNotif, calls>>
    /\ UNCHANGED env

\* schedule_notification: notification.task_id = task.id; session.commit; return task.id
ScheduleSetTaskId(t) ==
    /\ tasks[t].kind = "schedule" /\ tasks[t].pc = "enqueued"
    /\ db' = [db EXCEPT ![tasks[t].n].task_id = tasks[t].lt]
    /\ tasks' = Finish(t, "task_id")
    /\ resp' = NoResp
    /\ UNCHANGED <<nextId, nextNotif, calls>>
    /\ UNCHANGED env

\* ------------------------------------------------------ delivery execution

\* _handle_notification_delivery: the query, the not-found and CANCELLED returns
DeliverLoad(t) ==
    /\ tasks[t].kind = "deliver" /\ tasks[t].pc = "queued"
    /\ WorkerFree
    /\ LET row == Row(tasks[t].n) IN
        IF NotFound(row) \/ IsCancelled(row)
        THEN tasks' = Finish(t, "False")
        ELSE tasks' = [tasks EXCEPT ![t].pc = "loaded", ![t].ls = row.status]
    /\ resp' = NoResp
    /\ UNCHANGED <<db, nextId, nextNotif, calls>>
    /\ UNCHANGED env

\* notification.status = PROCESSING; session.commit()
DeliverMarkProcessing(t) ==
    /\ tasks[t].kind = "deliver" /\ tasks[t].pc = "loaded"
    /\ db' = [db EXCEPT ![tasks[t].n] = CommitStatus(@, tasks[t].ls, StatusOnStart)]
    /\ tasks' = [tasks EXCEPT ![t].pc = "processing", ![t].ls = "none", ![t].lc = 0]
    /\ resp' = NoResp
    /\ UNCHANGED <<nextId, nextNotif, calls>>
    /\ UNCHANGED env

\* delivery_method(notification): the first attribute access reloads the
\* instance the commit expired; the channel call then occupies the worker
DeliverStart(t) ==
    /\ tasks[t].kind = "deliver" /\ tasks[t].pc = "processing"
    /\ LET row == db[tasks[t].n] IN
        tasks' = [tasks EXCEPT ![t].pc = "delivering", ![t].ls = row.status,
                               ![t].lc = row.attempt_count]
    /\ calls' = [calls EXCEPT ![tasks[t].n] = @ + 1]
    /\ resp' = NoResp
    /\ UNCHANGED <<db, nextId, nextNotif>>
    /\ UNCHANGED env

\* the channel returned True: status = DELIVERED; commit; return True
DeliverSuccess(t) ==
    /\ tasks[t].kind = "deliver" /\ tasks[t].pc = "delivering"
    /\ db' = [db EXCEPT ![tasks[t].n] = CommitStatus(@, tasks[t].ls, StatusOnSuccess)]
    /\ tasks' = Finish(t, "True")
    /\ resp' = NoResp
    /\ UNCHANGED <<nextId, nextNotif, calls>>
    /\ UNCHANGED env

\* the channel raised: status = FAILED; attempt_count += 1; commit
DeliverFail(t) ==
    /\ tasks[t].kind = "deliver" /\ tasks[t].pc = "delivering"
    /\ db' = [db EXCEPT ![tasks[t].n] =
                [CommitStatus(@, tasks[t].ls, StatusOnFailure)
                    EXCEPT !.attempt_count = NextAttemptCount(tasks[t].lc)]]
    /\ tasks' = [tasks EXCEPT ![t].pc = "failed", ![t].ls = "none", ![t].lc = 0]
    /\ resp' = NoResp
    /\ UNCHANGED <<nextId, nextNotif, calls>>
    /\ UNCHANGED env

\* if notification.attempt_count < MAX_RETRY_ATTEMPTS: raise self.retry(...)
\* else: raise MaxRetriesExceededError().  The count is reloaded after the commit.
DeliverDecide(t) ==
    /\ tasks[t].kind = "deliver" /\ tasks[t].pc = "failed"
    /\ IF ShouldRetry(db[tasks[t].n].attempt_count) /\ CeleryMayRetry(tasks[t].retries)
       THEN tasks' = [tasks EXCEPT ![t].pc = "queued", ![t].retries = @ + 1]
       ELSE tasks' = Finish(t, "raise")
    /\ resp' = NoResp
    /\ UNCHANGED <<db, nextId, nextNotif, calls>>
    /\ UNCHANGED env

\* -------------------------------------------------------------- revocation

\* no task id: notification.task_id is None (or an empty string)
NoTaskId == 0

\* how the task queue answers the calls revoke_task makes: app.control.revoke
\* and app.control.terminate return or raise; inspector.reserved() and
\* inspector.scheduled() raise, return None (no worker replied), or return
\* the tasks of each worker, with the task id among them or not
QueueBehaviours ==
    [revoke : {"ok", "raise"},
     reserved : {"raise", "None", "listed", "unlisted"},
     scheduled : {"raise", "None", "listed", "unlisted"},
     terminate : {"ok", "raise"}]

\* an except clause that lets the exception through
Caught_Reraised(outcome) == outcome

\* except Exception as e: logger.error(...); return False
Caught(outcome) == IF outcome = "raise" THEN "False" ELSE outcome

\* the body of the try block of tasks.revoke_task: what it returns, or "raise"
RevokeBody(q) ==
    IF q.revoke = "raise" THEN "raise"
    ELSE IF q.reserved = "raise" THEN "raise"
    ELSE IF q.scheduled = "raise" THEN "raise"
    ELSE IF "listed" \in {q.reserved, q.scheduled} /\ q.terminate = "raise" THEN "raise"
    ELSE "True"

\* tasks.revoke_task: ret is what the caller gets, contacted whether any
\* call was made to the queue
RevokeTask(task_id, q) ==
    IF task_id = NoTaskId THEN [ret |-> "False", contacted |-> FALSE]
    ELSE [ret |-> Caught(RevokeBody(q)), contacted |-> TRUE]

\* TaskManager.revoke_task (src/utils/task_utils.py): app.control.revoke only
TaskManager_RevokeTask(task_id, q) ==
    IF task_id = NoTaskId THEN [ret |-> "False", contacted |-> FALSE]
    ELSE [ret |-> Caught(IF q.revoke = "raise" THEN "raise" ELSE "True"),
          contacted |-> TRUE]

\* what revoke_task returns when it was given a task id, over all the ways
\* the queue may behave
QueueAnswers == {RevokeTask(1, q).ret : q \in QueueBehaviours}

\* what a caller of revoke_task(task_id) may meet: the value returned, and
\* whether the broadcast took effect.  Revocation is best effort: a call that
\* reached the queue may take effect whatever it returned (inspect may fail
\* after the broadcast went out), and may have none although it returned True.
RevokeOutcomes == [ret : QueueAnswers, effective : BOOLEAN]

\* app.control.revoke(task_id, terminate=True) taking effect or not: when it
\* does, the task with that id never runs again (a running execution is
\* terminated where it stands).
Revoked(tid, effective) ==
    IF effective /\ tid \in TaskIds /\ Live(tid)
    THEN [tasks EXCEPT ![tid] = [NoTask EXCEPT !.kind = tasks[tid].kind, !.n = tasks[tid].n,
                                               !.pc = "revoked"]]
    ELSE tasks

\* if original_task_id: revoke_task(original_task_id) -- else only a warning is
\* logged.  rv keeps what revoke_task returned ("skipped" when it was not
\* called); an exception leaving revoke_task would leave the task as well.
RevokeIfTaskId(t) ==
    IF tasks[t].lt = NoTaskId
    THEN {[tasks EXCEPT ![t].pc = "commit", ![t].rv = "skipped"]}
    ELSE {LET after == Revoked(tasks[t].lt, o.effective) IN
            IF o.ret = "raise"
            THEN [after EXCEPT ![t] = [NoTask EXCEPT !.kind = tasks[t].kind,
                                                     !.n = tasks[t].n,
                                                     !.pc = "done", !.ret = "raise"]]
            ELSE [after EXCEPT ![t].pc = "commit", ![t].lt = 0, ![t].rv = o.ret] :
            o \in RevokeOutcomes}

\* ------------------------------------------------------------ force delivery

\* NotificationService.force_delivery
ForceRequest(n) ==
    /\ LET result == ForceCheck(db[n]) IN
        /\ IF result = "success" THEN Room(2) ELSE Room(1)
        /\ resp' = [op |-> "force", n |-> n, result |-> result,
                     id |-> IF result = "success" THEN nextId ELSE 0]
        /\ IF result = "success"
           THEN /\ tasks' = [tasks EXCEPT ![nextId] = NewTask("force", n)]
                /\ nextId' = nextId + 1
           ELSE UNCHANGED <<tasks, nextId>>
    /\ UNCHANGED <<db, nextNotif, calls>>
    /\ UNCHANGED env

\* force_immediate_delivery: the query and the two "return False" exits
ForceLoad(t) ==
    /\ tasks[t].kind = "force" /\ tasks[t].pc = "queued"
    /\ WorkerFree
    /\ LET row == db[tasks[t].n] IN
        IF ForceTaskAllowed(row)
        THEN tasks' = [tasks EXCEPT ![t].pc = "revoke", ![t].ls = row.status,
                                    ![t].lt = row.task_id]
        ELSE tasks' = Finish(t, "False")
    /\ resp' = NoResp
    /\ UNCHANGED <<db, nextId, nextNotif, calls>>
    /\ UNCHANGED env

\* force_immediate_delivery: revoke_task(original_task_id); a False is only logged
ForceRevoke(t) ==
    /\ tasks[t].kind = "force" /\ tasks[t].pc = "revoke"
    /\ tasks' \in RevokeIfTaskId(t)
    /\ resp' = NoResp
    /\ UNCHANGED <<db, nextId, nextNotif, calls>>
    /\ UNCHANGED env

\* force_immediate_delivery: notification.status = PROCESSING; session.commit()
ForceCommit(t) ==
    /\ tasks[t].kind = "force" /\ tasks[t].pc = "commit"
    /\ db' = [db EXCEPT ![tasks[t].n] = CommitStatus(@, tasks[t].ls, PROCESSING)]
    /\ tasks' = [tasks EXCEPT ![t].pc = "enqueue", ![t].ls = "none"]
    /\ resp' = NoResp
    /\ UNCHANGED <<nextId, nextNotif, calls>>
    /\ UNCHANGED env

\* force_immediate_delivery: channel = notification.channel (reloaded after the
\* commit); channel_tasks[channel].apply_async(countdown=0, ...)
ForceEnqueue(t) ==
    /\ tasks[t].kind = "force" /\ tasks[t].pc = "enqueue"
    /\ nextId \in TaskIds
    /\ LET channel == ForceChannel(db[tasks[t].n]) IN
        IF channel \notin Channels
        THEN /\ tasks' = Finish(t, "False")
             /\ UNCHANGED nextId
        ELSE /\ tasks' = [tasks EXCEPT ![t].pc = "enqueued", ![t].lt = nextId,
                                       ![nextId] = [NewTask("deliver", tasks[t].n)
                                                        EXCEPT !.chan = channel,
                                                               !.countdown = 0]]
             /\ nextId' = nextId + 1
    /\ resp' = NoResp
    /\ UNCHANGED <<db, nextNotif, calls>>
    /\ UNCHANGED env

\* force_immediate_delivery: notification.task_id = task.id; commit; return True
ForceSetTaskId(t) ==
    /\ tasks[t].kind = "force" /\ tasks[t].pc = "enqueued"
    /\ db' = [db EXCEPT ![tasks[t].n].task_id = tasks[t].lt]
    /\ tasks' = Finish(t, "True")
    /\ resp' = NoResp
    /\ UNCHANGED <<nextId, nextNotif, calls>>
    /\ UNCHANGED env

\* -------------------------------------------------------------------- cancel

\* NotificationService.cancel_notification
CancelRequest(n) ==
    /\ LET result == CancelCheck(db[n]) IN
        /\ Room(1)
        /\ resp' = [op |-> "cancel", n |-> n, result |-> result,
                     id |-> IF result = "success" THEN nextId ELSE 0]
        /\ IF result = "success"
           THEN /\ tasks' = [tasks EXCEPT ![nextId] = NewTask("cancel", n)]
                /\ nextId' = nextId + 1
           ELSE UNCHANGED <<tasks, nextId>>
    /\ UNCHANGED <<db, nextNotif, calls>>
    /\ UNCHANGED env

\* tasks.cancel_notification: the query and the two "return False" exits
CancelLoad(t) ==
    /\ tasks[t].kind = "cancel" /\ tasks[t].pc = "queued"
    /\ WorkerFree
    /\ LET row == db[tasks[t].n] IN
        IF CancelTaskAllowed(row)
        THEN tasks' = [tasks EXCEPT ![t].pc = "revoke", ![t].ls = row.status,
                                    ![t].lt = row.task_id]
        ELSE tasks' = Finish(t, "False")
    /\ resp' = NoResp
    /\ UNCHANGED <<db, nextId, nextNotif, calls>>
    /\ UNCHANGED env

\* tasks.cancel_notification: revoke_task, then AsyncResult.revoke if it failed
CancelRevoke(t) ==
    /\ tasks[t].kind = "cancel" /\ tasks[t].pc = "revoke"
    /\ tasks' \in RevokeIfTaskId(t)
    /\ resp' = NoResp
    /\ UNCHANGED <<db, nextId, nextNotif, calls>>
    /\ UNCHANGED env

\* tasks.cancel_notification: notification.status = CANCELLED; commit; return True
CancelCommit(t) ==
    /\ tasks[t].kind = "cancel" /\ tasks[t].pc = "commit"
    /\ db' = [db EXCEPT ![tasks[t].n] = CommitStatus(@, tasks[t].ls, CANCELLED)]
    /\ tasks' = Finish(t, "True")
    /\ resp' = NoResp
    /\ UNCHANGED <<nextId, nextNotif, calls>>
    /\ UNCHANGED env

\* ------------------------------------------------------------- specification

\* the clock reading of the requests of the lifecycle: noon of the first day
Noon == 12 * 60

\* the request of the lifecycle: a push notification to deliver now (the
\* two channel tasks run the same handler)
DefaultRequests ==
    {[channel |-> PUSH, timezone |-> UTC, scheduled_time |-> NoTime, now |-> Noon,
      content |-> 1, priority |-> NoPriority]}

Next ==
    \/ \E r \in DefaultRequests : ScheduleRequest(r)
    \/ \E t \in TaskIds : ScheduleCreate(t)
    \/ \E t \in TaskIds : ScheduleEnqueue(t)
    \/ \E t \in TaskIds : ScheduleSetTaskId(t)
    \/ \E t \in TaskIds : DeliverLoad(t)
    \/ \E t \in TaskIds : DeliverMarkProcessing(t)
    \/ \E t \in TaskIds : DeliverStart(t)
    \/ \E t \in TaskIds : DeliverSuccess(t)
    \/ \E t \in TaskIds : DeliverFail(t)
    \/ \E t \in TaskIds : DeliverDecide(t)
    \/ \E n \in NotifIds : ForceRequest(n)
    \/ \E t \in TaskIds : ForceLoad(t)
    \/ \E t \in TaskIds : ForceRevoke(t)
    \/ \E t \in TaskIds : ForceCommit(t)
    \/ \E t \in TaskIds : ForceEnqueue(t)
    \/ \E t \in TaskIds : ForceSetTaskId(t)
    \/ \E n \in NotifIds : CancelRequest(n)
    \/ \E t \in TaskIds : CancelLoad(t)
    \/ \E t \in TaskIds : CancelRevoke(t)
    \/ \E t \in TaskIds : CancelCommit(t)

Spec == Init /\ [][Next]_vars

TypeOK ==
    /\ \A n \in NotifIds : db[n].status \in {ABSENT, SCHEDULED, PROCESSING, DELIVERED, FAILED, CANCELLED}
    /\ nextId \in 1..(MaxTasks + 1)

\* ---------------------------------------------------- concurrent workers

\* the lifecycle with one worker process more, so that two tasks overlap
InitPar ==
    /\ Idle
    /\ workers = MaxWorkers + 1
    /\ inp = NoInput
    /\ out = <<>>

SpecPar == InitPar /\ [][Next]_vars

\* ------------------------------------------------------ a queue that fires

\* a step of a task on a worker
TaskStep ==
    \E t \in TaskIds :
        \/ DeliverLoad(t) \/ DeliverMarkProcessing(t) \/ DeliverStart(t)
        \/ DeliverSuccess(t) \/ DeliverFail(t) \/ DeliverDecide(t)
        \/ ForceLoad(t) \/ ForceRevoke(t) \/ ForceCommit(t)
        \/ ForceEnqueue(t) \/ ForceSetTaskId(t)
        \/ CancelLoad(t) \/ CancelRevoke(t) \/ CancelCommit(t)

\* a notification has been scheduled: its row is stored with the id of its
\* delivery task, and that task waits in the queue
InitLive ==
    /\ db = [n \in NotifIds |->
                IF n = 1 THEN [NewNotification(PUSH, UTC, Noon) EXCEPT !.task_id = 1]
                ELSE NoRow]
    /\ tasks = [t \in TaskIds |->
                    IF t = 1
                    THEN [NewTask("deliver", 1) EXCEPT !.chan = PUSH, !.eta = Noon]
                    ELSE NoTask]
    /\ nextId = 2
    /\ nextNotif = 2
    /\ calls = [n \in NotifIds |-> 0]
    /\ resp = NoResp
    /\ workers = MaxWorkers
    /\ inp = NoInput
    /\ out = <<>>
    /\ MetricsIdle

\* what happens to a scheduled notification: its delivery executions, and
\* the force and cancel requests that are accepted, with their tasks (a
\* request that is rejected changes nothing but its answer); callers stop
\* once fewer than three task ids are left
NextLive ==
    \/ \E t \in TaskIds : DeliverLoad(t)
    \/ \E t \in TaskIds : DeliverMarkProcessing(t)
    \/ \E t \in TaskIds : DeliverStart(t)
    \/ \E t \in TaskIds : DeliverSuccess(t)
    \/ \E t \in TaskIds : DeliverFail(t)
    \/ \E t \in TaskIds : DeliverDecide(t)
    \/ \E n \in NotifIds : Room(3) /\ ForceCheck(db[n]) = "success" /\ ForceRequest(n)
    \/ \E t \in TaskIds : ForceLoad(t)
    \/ \E t \in TaskIds : ForceRevoke(t)
    \/ \E t \in TaskIds : ForceCommit(t)
    \/ \E t \in TaskIds : ForceEnqueue(t)
    \/ \E t \in TaskIds : ForceSetTaskId(t)
    \/ \E n \in NotifIds : Room(3) /\ CancelCheck(db[n]) = "success" /\ CancelRequest(n)
    \/ \E t \in TaskIds : CancelLoad(t)
    \/ \E t \in TaskIds : CancelRevoke(t)
    \/ \E t \in TaskIds : CancelCommit(t)

\* a queue that hands every enqueued task to a worker when its time has
\* come, workers that run what they were handed and channel calls that
\* return or raise: while a task has a step to take, a task takes a step
SpecLive == InitLive /\ [][NextLive]_vars /\ WF_vars(TaskStep)

\* ------------------------------------------- schedule and force requests

\* a name pytz does not know
UnknownZone == "Mars/Olympus"

\* requested local times: none, unparsable, 03:00 of the first day (before
\* the clock reading), and 03:00, 14:00, 23:00 of the day after
RequestTimes ==
    {NoTime, Malformed, 3 * 60} \cup {DayMinutes + h * 60 : h \in {3, 14, 23}}

Requests ==
    {[channel |-> c, timezone |-> z, scheduled_time |-> s, now |-> Noon,
      content |-> 1, priority |-> NoPriority] :
        c \in Channels, z \in AllTimezones \cup {UnknownZone}, s \in RequestTimes}

\* schedule and force requests with their tasks; the delivery tasks stay in
\* the queue (their fire time has not come)
NextSchedule ==
    \/ \E r \in Requests : ScheduleRequest(r)
    \/ \E t \in TaskIds : ScheduleCreate(t)
    \/ \E t \in TaskIds : ScheduleEnqueue(t)
    \/ \E t \in TaskIds : ScheduleSetTaskId(t)
    \/ \E n \in NotifIds : ForceRequest(n)
    \/ \E t \in TaskIds : ForceLoad(t)
    \/ \E t \in TaskIds : ForceRevoke(t)
    \/ \E t \in TaskIds : ForceCommit(t)
    \/ \E t \in TaskIds : ForceEnqueue(t)
    \/ \E t \in TaskIds : ForceSetTaskId(t)

SpecSchedule == Init /\ [][NextSchedule]_vars

\* ------------------------------------------------ a broker that may fail

\* a rollback that takes the committed row with it
Rollback_DropsRow(n) == [db EXCEPT ![n] = NoRow]

\* except Exception: session.rollback(); raise.  The rollback undoes what the
\* session has not committed; the commits made before the error stay.
Rollback(n) == db

\* schedule_notification: apply_async raises (the broker cannot be reached);
\* the except clause rolls back and re-raises
ScheduleEnqueueFails(t) ==
    /\ tasks[t].kind = "schedule" /\ tasks[t].pc = "created"
    /\ LET a == tasks[t].args IN
        /\ a.scheduled_time # NoTime => a.timezone \in AllTimezones
        /\ a.channel \in Channels
    /\ db' = Rollback(tasks[t].n)
    /\ tasks' = Finish(t, "raise")
    /\ resp' = NoResp
    /\ UNCHANGED <<nextId, nextNotif, calls>>
    /\ UNCHANGED env

\* force_immediate_delivery: apply_async raises after PROCESSING was
\* committed; the except clause rolls back and re-raises
ForceEnqueueFails(t) ==
    /\ tasks[t].kind = "force" /\ tasks[t].pc = "enqueue"
    /\ ForceChannel(db[tasks[t].n]) \in Channels
    /\ db' = Rollback(tasks[t].n)
    /\ tasks' = Finish(t, "raise")
    /\ resp' = NoResp
    /\ UNCHANGED <<nextId, nextNotif, calls>>
    /\ UNCHANGED env

\* requests to deliver now, on either channel
ImmediateRequests ==
    {[channel |-> c, timezone |-> UTC, scheduled_time |-> NoTime, now |-> Noon,
      content |-> 1, priority |-> NoPriority] : c \in Channels}

\* schedule and force requests with their tasks, under a broker that accepts
\* a message or fails; the delivery tasks stay in the queue
NextOutage ==
    \/ \E r \in ImmediateRequests : ScheduleRequest(r)
    \/ \E t \in TaskIds : ScheduleCreate(t)
    \/ \E t \in TaskIds : ScheduleEnqueue(t)
    \/ \E t \in TaskIds : ScheduleEnqueueFails(t)
    \/ \E t \in TaskIds : ScheduleSetTaskId(t)
    \/ \E n \in NotifIds : ForceRequest(n)
    \/ \E t \in TaskIds : ForceLoad(t)
    \/ \E t \in TaskIds : ForceRevoke(t)
    \/ \E t \in TaskIds : ForceCommit(t)
    \/ \E t \in TaskIds : ForceEnqueue(t)
    \/ \E t \in TaskIds : ForceEnqueueFails(t)
    \/ \E t \in TaskIds : ForceSetTaskId(t)

SpecOutage == Init /\ [][NextOutage]_vars

\* ------------------------------------------------- one delivery execution

\* an id that was never stored
UnknownNotif == 0

\* rows a queued delivery task may meet: any status, with the attempts made
\* so far
DeliveryRows ==
    {[status |-> s, attempt_count |-> c, task_id |-> 1, channel |-> ch,
      timezone |-> UTC, scheduled_time |-> Noon] :
        s \in {SCHEDULED, PROCESSING, DELIVERED, FAILED, CANCELLED},
        c \in 0..(MAX_RETRY_ATTEMPTS - 1), ch \in Channels}

\* two delivery tasks are queued (send_push_notification or
\* send_email_notification, args=[notification_id]): one for a stored
\* notification, one for an id that is not in the table
InitDelivery ==
    /\ \E row \in DeliveryRows :
        /\ row.status = SCHEDULED => row.attempt_count = 0
        /\ row.status = FAILED => row.attempt_count > 0
        /\ db = [n \in NotifIds |-> IF n = 1 THEN row ELSE NoRow]
        /\ tasks = [t \in TaskIds |->
                        IF t = 1 THEN [NewTask("deliver", 1) EXCEPT !.chan = row.channel]
                        ELSE IF t = 2
                        THEN [NewTask("deliver", UnknownNotif) EXCEPT !.chan = row.channel]
                        ELSE NoTask]
    /\ nextId = 3
    /\ nextNotif = 2
    /\ calls = [n \in NotifIds |-> 0]
    /\ resp = NoResp
    /\ workers = MaxWorkers
    /\ inp = NoInput
    /\ out = <<>>
    /\ MetricsIdle

NextDelivery ==
    \/ \E t \in TaskIds : DeliverLoad(t)
    \/ \E t \in TaskIds : DeliverMarkProcessing(t)
    \/ \E t \in TaskIds : DeliverStart(t)
    \/ \E t \in TaskIds : DeliverSuccess(t)
    \/ \E t \in TaskIds : DeliverFail(t)
    \/ \E t \in TaskIds : DeliverDecide(t)

SpecDelivery == InitDelivery /\ [][NextDelivery]_vars

\* ------------------------------------------ the appropriate-hours adjustment

\* instants on the half hour in days 0..MaxDay
Instants ==
    {d * DayMinutes + h * 60 + m : d \in 0..MaxDay, h \in 0..23, m \in {0, 30}}

InitTime ==
    /\ Idle
    /\ workers = MaxWorkers
    /\ inp \in {[fn |-> "get_next_appropriate_time", t |-> t, z |-> z] :
                    t \in Instants, z \in AllTimezones}
    /\ out = <<>>

\* r = TimeUtils.get_next_appropriate_time(t, z)
Adjust ==
    /\ out = <<>>
    /\ out' = <<GetNextAppropriateTime(inp.t, inp.z)>>
    /\ UNCHANGED <<db, tasks, nextId, nextNotif, calls, resp, workers, inp, metrics>>

\* TimeUtils.get_next_appropriate_time(r, z): the function applied to its result
AdjustAgain ==
    /\ Len(out) = 1
    /\ out' = Append(out, GetNextAppropriateTime(out[1], inp.z))
    /\ UNCHANGED <<db, tasks, nextId, nextNotif, calls, resp, workers, inp, metrics>>

NextTime == Adjust \/ AdjustAgain

SpecTime == InitTime /\ [][NextTime]_vars

\* -------------------------------------------------------- the two validators

\* objects handed to validate: every zone, the kinds of scheduled_time, the
\* content lengths around the limits and the priorities around the limits
ValidatorInputs ==
    {[channel |-> PUSH, timezone |-> z, scheduled_time |-> s, now |-> Noon,
      content |-> c, priority |-> p] :
        z \in AllTimezones \cup {UnknownZone},
        s \in {NoTime, Malformed, 3 * 60, DayMinutes + 14 * 60},
        c \in {0, 1, MAX_LENGTH, MAX_LENGTH + 1},
        p \in {NoPriority, [kind |-> "str", value |-> 0]} \cup
              {[kind |-> "int", value |-> v] :
                    v \in {MIN_PRIORITY - 1, MIN_PRIORITY, MAX_PRIORITY, MAX_PRIORITY + 1}}}

InitValidate ==
    /\ Idle
    /\ workers = MaxWorkers
    /\ inp \in {[fn |-> "validate", r |-> r] : r \in ValidatorInputs}
    /\ out = <<>>

\* NotificationValidator(request).validate() of src/notification_validator.py
ValidateFailFast ==
    /\ out = <<>>
    /\ out' = <<[by |-> "notification_validator", res |-> NotificationValidator(inp.r)]>>
    /\ UNCHANGED <<db, tasks, nextId, nextNotif, calls, resp, workers, inp, metrics>>

\* NotificationValidator(request).validate() of src/validators/notification_validator.py
ValidateCollectAll ==
    /\ out = <<>>
    /\ out' = <<[by |-> "validators.notification_validator",
                 res |-> Validators_NotificationValidator(inp.r)]>>
    /\ UNCHANGED <<db, tasks, nextId, nextNotif, calls, resp, workers, inp, metrics>>

NextValidate == ValidateFailFast \/ ValidateCollectAll

SpecValidate == InitValidate /\ [][NextValidate]_vars

\* ------------------------------------------------------------- revoke_task

\* revoke_task is called with no id or with a task id, against a queue that
\* behaves in any of the ways of QueueBehaviours
InitRevoke ==
    /\ Idle
    /\ workers = MaxWorkers
    /\ inp \in {[fn |-> "revoke_task", task_id |-> i, q |-> q] :
                    i \in {NoTaskId} \cup TaskIds, q \in QueueBehaviours}
    /\ out = <<>>

\* revoke_task(task_id) of src/tasks.py
RevokeViaTasks ==
    /\ out = <<>>
    /\ out' = <<[by |-> "tasks", res |-> RevokeTask(inp.task_id, inp.q)]>>
    /\ UNCHANGED <<db, tasks, nextId, nextNotif, calls, resp, workers, inp, metrics>>

\* TaskManager.revoke_task(task_id) of src/utils/task_utils.py
RevokeViaTaskManager ==
    /\ out = <<>>
    /\ out' = <<[by |-> "task_utils", res |-> TaskManager_RevokeTask(inp.task_id, inp.q)]>>
    /\ UNCHANGED <<db, tasks, nextId, nextNotif, calls, resp, workers, inp, metrics>>

NextRevoke == RevokeViaTasks \/ RevokeViaTaskManager

SpecRevoke == InitRevoke /\ [][NextRevoke]_vars

\* ------------------------------------------------------ priority weighting

\* base priorities a caller may supply, and the values of the random draw
\* (the whole numbers of the interval [0, 100])
BasePriorities == MIN_PRIORITY..MAX_PRIORITY
Draws == 0..100

\* round(x) for x = tenths / 10: the nearest whole number; a value halfway
\* between two whole numbers goes to either (the sum is computed in floating
\* point, which may leave it just above or just below the half)
Rounded(tenths) ==
    LET q == tenths \div 10
        rem == tenths % 10
    IN  IF rem < 5 THEN {q}
        ELSE IF rem > 5 THEN {q + 1}
        ELSE {q, q + 1}

\* a weighting that adds the draw to ten times the base priority
ExecutionPriorities_Unweighted(base, r) == Rounded(10 * (r + base * 10))

\* f = base / 10; actual = round(r * f + base * 10 * (1 - f)).  In tenths:
\* r * base + base * 10 * (10 - base)
ExecutionPriorities(base, r) == Rounded(r * base + base * 10 * (10 - base))

InitPriority ==
    /\ Idle
    /\ workers = MaxWorkers
    /\ inp \in {[fn |-> "priority", base |-> b, r |-> r] :
                    b \in BasePriorities, r \in Draws}
    /\ out = <<>>

\* the execution priority of the request at hand
Weigh ==
    /\ out = <<>>
    /\ \E a \in ExecutionPriorities(inp.base, inp.r) :
        out' = <<[base |-> inp.base, r |-> inp.r, actual |-> a]>>
    /\ UNCHANGED <<db, tasks, nextId, nextNotif, calls, resp, workers, inp, metrics>>

\* draws of the request weighed next: the ends and the middle of the interval
CornerDraws == {0, 50, 100}

\* the execution priority of another request, with a draw of its own
WeighAnother ==
    /\ Len(out) = 1
    /\ \E b \in BasePriorities, r \in CornerDraws :
        \E a \in ExecutionPriorities(b, r) :
            out' = Append(out, [base |-> b, r |-> r, actual |-> a])
    /\ UNCHANGED <<db, tasks, nextId, nextNotif, calls, resp, workers, inp, metrics>>

NextPriority == Weigh \/ WeighAnother

SpecPriority == InitPriority /\ [][NextPriority]_vars

\* ------------------------------------------------------- metrics recording

\* a record call that does not wait for exclusive access
LockFree_Ignored(k) == TRUE

\* exclusive access to the counter of key k is free
LockFree(k) == lock[k] = 0

\* record(server_id, channel, status) is called by writer w: it waits for
\* exclusive access to the counter of the key
RecordAcquire(w, k) ==
    /\ writers[w].pc = "idle" /\ writers[w].left > 0
    /\ LockFree(k)
    /\ lock' = [lock EXCEPT ![k] = w]
    /\ writers' = [writers EXCEPT ![w].pc = "locked", ![w].key = k]
    /\ made' = [made EXCEPT ![k] = @ + 1]
    /\ UNCHANGED <<db, tasks, nextId, nextNotif, calls, resp, workers, inp, out, stats>>

\* record: the current count is read
RecordRead(w) ==
    /\ writers[w].pc = "locked"
    /\ writers' = [writers EXCEPT ![w].pc = "read", ![w].seen = stats[writers[w].key]]
    /\ UNCHANGED <<db, tasks, nextId, nextNotif, calls, resp, workers, inp, out,
                   stats, lock, made>>

\* record: the count is stored incremented and the access is given up
RecordWrite(w) ==
    /\ writers[w].pc = "read"
    /\ stats' = [stats EXCEPT ![writers[w].key] = writers[w].seen + 1]
    /\ lock' = [lock EXCEPT ![writers[w].key] = 0]
    /\ writers' = [writers EXCEPT ![w].pc = "idle", ![w].key = NoKey, ![w].seen = 0,
                                  ![w].left = @ - 1]
    /\ UNCHANGED <<db, tasks, nextId, nextNotif, calls, resp, workers, inp, out, made>>

NextMetrics ==
    \/ \E w \in Writers, k \in MetricKeys : RecordAcquire(w, k)
    \/ \E w \in Writers : RecordRead(w)
    \/ \E w \in Writers : RecordWrite(w)

SpecMetrics == Init /\ [][NextMetrics]_vars

\* ----------------------------------------------------------- metrics query

\* an optional argument that was not given: a server or channel, a period
None == "None"
NoPeriod == -1

\* the tasks Flower reports at /api/tasks: the worker that ran each and its state
FlowerTasks ==
    {[id |-> 1, worker |-> "worker.a", state |-> "SUCCESS"],
     [id |-> 2, worker |-> "worker.a", state |-> "FAILURE"],
     [id |-> 3, worker |-> "worker.b", state |-> "SUCCESS"]}

\* MetricsCollector._process_tasks_by_worker: the worker filter; the date
\* range lets every task through when no bound is given
WorkerTasks(flower, worker_filter) ==
    {t \in flower : worker_filter = None \/ worker_filter = t.worker}

\* MetricsCollector._count_task_by_state, for the tasks of worker w
CountByState(ts, w, state) ==
    Cardinality({t \in ts : t.worker = w /\ t.state = state})

\* MetricsCollector._collect_worker_ids: the server asked for, or the workers
\* that have task statistics (the inspector got no reply; nothing was recorded)
CollectWorkerIds(server_id, ts) ==
    IF server_id # None THEN {server_id} ELSE {t.worker : t \in ts}

\* MetricsCollector._create_server_data_object: the counters of one worker
ServerData(w, ts) ==
    [k \in {"total_tasks", "pending_tasks", "active_tasks"} \cup
           (IF \E t \in ts : t.worker = w THEN {"success_tasks", "failed_tasks"} ELSE {})
        |-> CASE k = "success_tasks" -> CountByState(ts, w, "SUCCESS")
              [] k = "failed_tasks" -> CountByState(ts, w, "FAILURE")
              [] k = "pending_tasks" -> CountByState(ts, w, "RECEIVED")
              [] OTHER -> 0]

\* MetricsCollector.get_metrics(server_id, start_date, end_date): isoformat()
\* is called on a bound that is given, before the try block
CollectorGetMetrics(server_id, start_date, end_date, flower) ==
    IF start_date # None \/ end_date # NoPeriod
    THEN [raised |-> "AttributeError", keys |-> {}, servers |-> <<>>]
    ELSE LET ts == WorkerTasks(flower, server_id) IN
         [raised |-> "none", keys |-> {"timestamp", "servers"},
          servers |-> [w \in CollectWorkerIds(server_id, ts) |-> ServerData(w, ts)]]

\* NotificationService.get_metrics(server_id, channel, time_period): the
\* channel (a string) and the period (an int) are passed on in the places of
\* start_date and end_date
ServiceGetMetrics(server_id, channel, time_period, flower) ==
    IF time_period # NoPeriod /\ time_period <= 0
    THEN [raised |-> "ValueError", keys |-> {}, servers |-> <<>>]
    ELSE CollectorGetMetrics(server_id, channel, time_period, flower)

InitQuery ==
    /\ Idle
    /\ workers = MaxWorkers
    /\ inp \in {[fn |-> "get_metrics", server_id |-> sv, channel |-> c,
                 time_period |-> tp, flower |-> fl] :
                    sv \in {None, "worker.a", "worker.b"}, c \in {None, PUSH},
                    tp \in {NoPeriod, 0, 60}, fl \in SUBSET FlowerTasks}
    /\ out = <<>>

\* NotificationService.get_metrics(server, channel, period)
Query ==
    /\ out = <<>>
    /\ out' = <<ServiceGetMetrics(inp.server_id, inp.channel, inp.time_period, inp.flower)>>
    /\ UNCHANGED <<db, tasks, nextId, nextNotif, calls, resp, workers, inp, metrics>>

SpecQuery == InitQuery /\ [][Query]_vars

\* ------------------------------------------------------- derived quantities

Terminal == {DELIVERED, FAILED, CANCELLED}

AllowedTransitions ==
    {<<SCHEDULED, PROCESSING>>, <<SCHEDULED, CANCELLED>>,
     <<PROCESSING, DELIVERED>>, <<PROCESSING, FAILED>>}

\* delivery tasks of notification n
DeliveryTasks(n) == {t \in TaskIds : tasks[t].kind = "deliver" /\ tasks[t].n = n}

\* channel invocations for n that returned True
Successes(n) == Cardinality({t \in DeliveryTasks(n) : tasks[t].ret = "True"})

\* nothing queued or running concerns n any more
Quiescent(n) == \A t \in TaskIds : tasks[t].n = n => ~Live(t)

\* attempt 1 of a delivery task of n has failed and its retry has not fired yet
RetryPending(n) ==
    \E t \in DeliveryTasks(n) : tasks[t].pc = "queued" /\ tasks[t].retries = 1

\* step of task t that touches no other task
OnlyTask(t) == \A u \in TaskIds : u # t => tasks'[u] = tasks[u]

\* ------------------------------------------------------------------- claims

\* C1: every change of value of a notification's persisted status is one of
\* SCHEDULED->PROCESSING, SCHEDULED->CANCELLED, PROCESSING->DELIVERED,
\* PROCESSING->FAILED.
C1_OnlyLegalTransitions ==
    [][\A n \in NotifIds :
        (db[n].status # ABSENT /\ db'[n].status # db[n].status)
            => <<db[n].status, db'[n].status>> \in AllowedTransitions]_vars

\* C2: once a notification's status is DELIVERED, FAILED or CANCELLED no later
\* step changes its status.
C2_TerminalIsFinal ==
    [][\A n \in NotifIds :
        db[n].status \in Terminal => db'[n].status = db[n].status]_vars

\* C3: attempt_count never exceeds MAX_RETRY_ATTEMPTS.
C3_AttemptCountBounded ==
    \A n \in NotifIds : db[n].attempt_count <= MAX_RETRY_ATTEMPTS

\* C4: a delivery execution that loads a CANCELLED notification ends there: it
\* returns False without calling the channel, writes nothing to the row
\* (status, attempt_count, task_id) and is not re-queued.
C4_CancelledIsSkipped ==
    [][\A t \in TaskIds :
        (DeliverLoad(t) /\ db[tasks[t].n].status = CANCELLED)
            => /\ db' = db
               /\ calls' = calls
               /\ tasks'[t].pc = "done" /\ tasks'[t].ret = "False"
               /\ OnlyTask(t)
               /\ nextId' = nextId]_vars

C4_Witness ==
    \E t \in TaskIds :
        /\ tasks[t].kind = "deliver" /\ tasks[t].pc = "done" /\ tasks[t].ret = "False"
        /\ db[tasks[t].n].status = CANCELLED

\* C5 as claimed: while the retry after the first failed attempt is pending,
\* a cancel request is accepted.
C5_CancelAcceptedMidRetry ==
    [][\A n \in NotifIds :
        (RetryPending(n) /\ CancelRequest(n)) => resp'.result = "success"]_vars

\* C5 as amended: while the retry after the first failed attempt is pending,
\* a cancel request is rejected with InvalidState; the status does not become
\* CANCELLED (the row is untouched) and the pending retry stays queued.
C5_CancelRejectedMidRetry ==
    [][\A n \in NotifIds :
        (RetryPending(n) /\ CancelRequest(n))
            => /\ resp'.result = "InvalidState"
               /\ db' = db
               /\ tasks' = tasks
               /\ RetryPending(n)']_vars

C5_Witness ==
    /\ resp.op = "cancel" /\ resp.result = "InvalidState"
    /\ resp.n \in NotifIds
    /\ RetryPending(resp.n)
    /\ db[resp.n].attempt_count = 1

\* C6: a notification that was never cancelled, none of whose executions was
\* terminated and whose channel delivery failed on every attempt ends, when
\* nothing is left to run, with exactly MAX_RETRY_ATTEMPTS attempts made,
\* attempt_count = MAX_RETRY_ATTEMPTS and status FAILED.
C6_ThreeFailuresThenFailed ==
    \A n \in NotifIds :
        ( /\ Quiescent(n)
          /\ calls[n] > 0
          /\ Successes(n) = 0
          /\ \A t \in TaskIds : tasks[t].n = n =>
                tasks[t].kind # "cancel" /\ tasks[t].pc # "revoked" )
        => /\ calls[n] = MAX_RETRY_ATTEMPTS
           /\ db[n].attempt_count = MAX_RETRY_ATTEMPTS
           /\ db[n].status = FAILED

\* C7: when cancel has just returned success for a notification and cancel is
\* called again on the same id as the very next step, the second call raises
\* InvalidState.
C7_SecondCancelRejected ==
    [][\A n \in NotifIds :
        ( /\ resp.op = "cancel" /\ resp.n = n /\ resp.result = "success"
          /\ CancelRequest(n) )
        => resp'.result = "InvalidState"]_vars

\* C8: a force or cancel request that was answered with success is applied:
\* the task it started never ends in the "cannot force / cannot cancel"
\* branch, which only logs and returns False.
C8_AcceptedRequestIsApplied ==
    \A t \in TaskIds :
        (tasks[t].kind \in {"force", "cancel"} /\ tasks[t].pc = "done")
            => tasks[t].ret = "True"

\* C9: a cancel request on a notification that is not SCHEDULED is answered
\* InvalidState, on a missing id NotFound, and the worker's cancel task that
\* finds the notification not SCHEDULED returns; in each case no row changes
\* and no task is revoked or enqueued.
C9_CancelRejectionChangesNothing ==
    [][/\ \A n \in NotifIds :
            (CancelRequest(n) /\ db[n].status # SCHEDULED)
                => /\ resp'.result = IF db[n].status = ABSENT THEN "NotFound"
                                     ELSE "InvalidState"
                   /\ db' = db /\ tasks' = tasks /\ nextId' = nextId
       /\ \A t \in TaskIds :
            (CancelLoad(t) /\ db[tasks[t].n].status # SCHEDULED)
                => /\ db' = db /\ OnlyTask(t) /\ nextId' = nextId
                   /\ tasks'[t].pc = "done"]_vars

C9_Witness ==
    /\ resp.op = "cancel" /\ resp.result = "InvalidState"
    /\ resp.n \in NotifIds
    /\ db[resp.n].status \in {PROCESSING, DELIVERED, FAILED, CANCELLED}

\* C10: a force request on a notification that is not SCHEDULED (CANCELLED in
\* particular) is answered InvalidState, on a missing id NotFound; the row is
\* unchanged and no task is enqueued.
C10_ForceRejectionChangesNothing ==
    [][\A n \in NotifIds :
        (ForceRequest(n) /\ db[n].status # SCHEDULED)
            => /\ resp'.result = IF db[n].status = ABSENT THEN "NotFound"
                                 ELSE "InvalidState"
               /\ db' = db /\ tasks' = tasks /\ nextId' = nextId]_vars

C10_Witness ==
    /\ resp.op = "force" /\ resp.result = "InvalidState"
    /\ resp.n \in NotifIds
    /\ db[resp.n].status = CANCELLED

\* C11: a force task that finds its notification SCHEDULED goes on to the
\* revocation of the task_id it read; the revocation touches no task but that
\* one; PROCESSING is committed while no new task exists yet; then exactly one
\* delivery task is enqueued, for the notification's channel and with
\* countdown 0, the status being PROCESSING; and the task_id committed last
\* is the id of that new task.
C11_ForceOnScheduled ==
    [][\A t \in TaskIds :
        LET n == tasks[t].n IN
        /\ (ForceLoad(t) /\ db[n].status = SCHEDULED)
            => /\ tasks'[t].pc = "revoke" /\ tasks'[t].lt = db[n].task_id
               /\ db' = db /\ nextId' = nextId
        /\ ForceRevoke(t)
            => /\ \A u \in TaskIds \ {t} :
                    \/ tasks'[u] = tasks[u]
                    \/ u = tasks[t].lt /\ tasks'[u].pc = "revoked"
               /\ db' = db /\ nextId' = nextId
        /\ ForceCommit(t)
            => /\ db'[n].status = PROCESSING
               /\ nextId' = nextId /\ OnlyTask(t)
        /\ ForceEnqueue(t)
            => /\ db[n].status = PROCESSING /\ db' = db
               /\ nextId' = nextId + 1
               /\ tasks'[nextId] = [NewTask("deliver", n) EXCEPT !.chan = db[n].channel,
                                                                 !.countdown = 0]
               /\ \A u \in TaskIds \ {t, nextId} : tasks'[u] = tasks[u]
        /\ ForceSetTaskId(t)
            => /\ db'[n].task_id = tasks[t].lt
               /\ tasks[db'[n].task_id].kind = "deliver"
               /\ tasks[db'[n].task_id].n = n
               /\ tasks[db'[n].task_id].countdown = 0
               /\ tasks'[t].pc = "done" /\ tasks'[t].ret = "True"]_vars

C11_Witness ==
    \E t, old, new \in TaskIds :
        /\ tasks[t].kind = "force" /\ tasks[t].pc = "done" /\ tasks[t].ret = "True"
        /\ tasks[old].kind = "deliver" /\ tasks[old].pc = "revoked"
        /\ tasks[old].n = tasks[t].n
        /\ db[tasks[t].n].status = PROCESSING
        /\ db[tasks[t].n].channel = EMAIL
        /\ db[tasks[t].n].task_id = new /\ new # old
        /\ tasks[new].kind = "deliver" /\ tasks[new].pc = "queued"
        /\ tasks[new].chan = EMAIL /\ tasks[new].countdown = 0

\* a schedule or force task is queued or running for n
OperationInProgress(n) ==
    \E t \in TaskIds :
        /\ tasks[t].kind \in {"schedule", "force"}
        /\ tasks[t].n = n
        /\ Live(t)

\* the delivery task enqueued last for n (task ids are handed out in order)
LatestDeliveryTask(n) ==
    CHOOSE t \in DeliveryTasks(n) : \A u \in DeliveryTasks(n) : u <= t

\* C12: whenever no schedule or force task is queued or running for a
\* notification, its task_id is the id of the delivery task enqueued last
\* for it; also when such tasks ran on two workers at the same time.
C12_TaskIdIsLatest ==
    \A n \in NotifIds :
        (db[n].status # ABSENT /\ DeliveryTasks(n) # {} /\ ~OperationInProgress(n))
            => db[n].task_id = LatestDeliveryTask(n)

\* the execution of delivery task t ended at the CANCELLED check
SkippedCancelled(t) ==
    /\ tasks[t].kind = "deliver" /\ tasks[t].pc = "done"
    /\ Row(tasks[t].n).status = CANCELLED

\* the execution of delivery task t ended in a failure: its notification
\* was not found, or its last attempt failed
EndedInFailure(t) ==
    /\ tasks[t].kind = "deliver" /\ tasks[t].pc = "done"
    /\ Row(tasks[t].n).status \in {ABSENT, FAILED}

\* C13: what a delivery execution returns when it skips a CANCELLED
\* notification differs from what an execution returns or raises for a
\* failure (notification not found, or delivery attempt failed).
C13_SkipDistinctFromFailure ==
    \A t, u \in TaskIds :
        (SkippedCancelled(t) /\ EndedInFailure(u)) => tasks[t].ret # tasks[u].ret

\* C14: every delivery task the schedule operation enqueued has an eta whose
\* hour in the notification's timezone lies in
\* [APPROPRIATE_HOURS_START, APPROPRIATE_HOURS_END).
C14_EtaWithinAppropriateHours ==
    \A t \in TaskIds :
        (tasks[t].kind = "deliver" /\ tasks[t].eta # NoEta)
            => IsWithinAppropriateHours(tasks[t].eta, db[tasks[t].n].timezone)

\* C15: for every instant t and timezone z,
\* get_next_appropriate_time(get_next_appropriate_time(t, z), z)
\* = get_next_appropriate_time(t, z).
C15_AdjustmentIdempotent ==
    Len(out) = 2 => out[2] = out[1]

\* the wall clock of zone z at instant t
LocalTime(t, z) == t + UtcOffset(z, t)

\* C16: the adjustment maps a local time with hour < START to START:00:00 of
\* the same local day, one with hour >= END to START:00:00 of the next local
\* day, and leaves one with START <= hour < END unchanged.
C16_AdjustmentByCase ==
    (inp.fn = "get_next_appropriate_time" /\ Len(out) >= 1) =>
        LET before == LocalTime(inp.t, inp.z)
            after == LocalTime(out[1], inp.z)
            startOf(day) == day * DayMinutes + APPROPRIATE_HOURS_START * 60
        IN  /\ HourOf(before) < APPROPRIATE_HOURS_START
                => after = startOf(DayOf(before))
            /\ HourOf(before) >= APPROPRIATE_HOURS_END
                => after = startOf(DayOf(before) + 1)
            /\ (APPROPRIATE_HOURS_START <= HourOf(before)
                    /\ HourOf(before) < APPROPRIATE_HOURS_END)
                => out[1] = inp.t

\* the requests the validator of the service rejects
InvalidRequests == {r \in Requests : NotificationValidator(r).raised # "none"}

\* C17: a step that is a schedule request whose validation fails answers
\* ValidationError; it writes no row and enqueues no task.
C17_InvalidRequestChangesNothing ==
    [][(\E r \in InvalidRequests : ScheduleRequest(r))
            => /\ resp'.op = "schedule" /\ resp'.result = "ValidationError"
               /\ db' = db /\ nextNotif' = nextNotif
               /\ tasks' = tasks /\ nextId' = nextId]_vars

C17_Witness ==
    /\ resp.op = "schedule" /\ resp.result = "ValidationError"
    /\ \A n \in NotifIds : db[n].status = ABSENT
    /\ \A t \in TaskIds : tasks[t].kind = "none"

\* the result of the validator the schedule operation uses is at hand
ServiceValidated ==
    inp.fn = "validate" /\ out # <<>> /\ out[1].by = "notification_validator"

\* the policies of src/policy.py that report a violation for request r
Violated(r) ==
    {AllPolicies[i] : i \in {j \in 1..Len(AllPolicies) :
                                Policy(AllPolicies[j], r) = "ValidationError"}}

\* C18: the validator used by the schedule operation evaluates every one of
\* its policies, also after one has failed, and when a request violates
\* policies the ValidationError it raises names each of them.
C18_AllViolationsReported ==
    ServiceValidated =>
        /\ out[1].res.ran = Len(ServicePolicies)
        /\ Violated(inp.r) # {} =>
            /\ out[1].res.raised = "ValidationError"
            /\ out[1].res.rules = Violated(inp.r)

\* C19: the validator applied to a schedule request succeeds exactly when
\* the timezone is a recognized name, the scheduled time is absent or parses
\* and is not before now in that zone, the priority is an integer in
\* MIN_PRIORITY..MAX_PRIORITY and the content length is in 1..MAX_LENGTH.
C19_ValidIffFourRulesHold ==
    ServiceValidated =>
        LET r == inp.r
            zoneOk == r.timezone \in AllTimezones
            timeOk == \/ r.scheduled_time = NoTime
                      \/ /\ r.scheduled_time # Malformed
                         /\ r.scheduled_time - LocalizeOffset(r.timezone, r.scheduled_time)
                                >= r.now
            priorityOk == /\ r.priority.kind = "int"
                          /\ r.priority.value \in MIN_PRIORITY..MAX_PRIORITY
            contentOk == r.content \in 1..MAX_LENGTH
        IN  (out[1].res.raised = "none")
                <=> (zoneOk /\ timeOk /\ priorityOk /\ contentOk)

\* C20: validate returns or raises ValidationError; nothing else leaves it,
\* whatever the request violates (an unrecognized timezone together with a
\* scheduled time in particular).
C20_OnlyValidationErrorEscapes ==
    (inp.fn = "validate" /\ out # <<>>)
        => out[1].res.raised \in {"none", "ValidationError"}

\* C21: revoke_task returns True or False and never raises, whatever the
\* task id and whatever the queue does (revoke, inspect or terminate
\* failing); for an empty or absent task id it returns False and makes no
\* call to the queue.
C21_RevokeNeverRaises ==
    (inp.fn = "revoke_task" /\ out # <<>>)
        => /\ out[1].res.ret \in {"True", "False"}
           /\ inp.task_id = NoTaskId
                => out[1].res.ret = "False" /\ ~out[1].res.contacted

C21_Witness ==
    /\ inp.fn = "revoke_task" /\ out # <<>>
    /\ out[1].by = "tasks"
    /\ inp.task_id # NoTaskId
    /\ inp.q.revoke = "ok" /\ inp.q.reserved = "listed" /\ inp.q.terminate = "raise"
    /\ out[1].res.ret = "False"

\* revoke_task returned False for task t, or t found no task_id to revoke
RevocationFailed(t) == tasks[t].rv \in {"False", "skipped"}

C24_PriorityInRange ==
    inp.fn = "priority" =>
        \A i \in DOMAIN out : out[i].actual >= 0 /\ out[i].actual <= 100

C24_Witness ==
    /\ inp.fn = "priority" /\ Len(out) = 1
    /\ out[1].base = MAX_PRIORITY /\ out[1].r = 100 /\ out[1].actual = 100

\* C25: of two requests the one with the higher base priority gets an
\* execution priority at least as high, whatever the two draws.
C25_HigherBaseDominates ==
    (inp.fn = "priority" /\ Len(out) = 2 /\ out[1].base < out[2].base)
        => out[2].actual >= out[1].actual

\* C26: whenever no record call is under way, the counter of every key
\* equals the number of record calls made with that key, whatever the
\* interleaving of the writers.
C26_NoCountLost ==
    (\A w \in Writers : writers[w].pc = "idle")
        => \A k \in MetricKeys : stats[k] = made[k]

C26_Witness ==
    /\ \A w \in Writers : writers[w].pc = "idle" /\ writers[w].left = 0
    /\ \E k \in MetricKeys : stats[k] = MaxWriters * MaxRecords

\* C27: the metrics query, given no period or a positive one, returns the
\* counts grouped by server, then channel, then status, together with a
\* total of the counts returned.
C27_QueryGroupsAndTotals ==
    ( /\ inp.fn = "get_metrics" /\ out # <<>>
      /\ inp.time_period = NoPeriod \/ inp.time_period > 0 )
        => /\ out[1].raised = "none"
           /\ "total" \in out[1].keys
           /\ \A w \in DOMAIN out[1].servers : DOMAIN out[1].servers[w] \subseteq Channels

\* C28: a notification whose status is FAILED has attempt_count =
\* MAX_RETRY_ATTEMPTS.
C28_FailedOnlyWhenExhausted ==
    \A n \in NotifIds :
        db[n].status = FAILED => db[n].attempt_count = MAX_RETRY_ATTEMPTS

\* C29: a commit by a delivery, force or cancel task overwrites what the
\* task itself loaded: when it writes the status, the stored status is the
\* one it read, and when it writes attempt_count, the stored count is the
\* one it read (so that two failures count as two).
C29_NoLostUpdate ==
    [][\A t \in TaskIds :
        LET n == tasks[t].n IN
        /\ ( /\ tasks[t].pc \in {"loaded", "delivering", "commit"}
             /\ \/ DeliverMarkProcessing(t) \/ DeliverSuccess(t) \/ DeliverFail(t)
                \/ ForceCommit(t) \/ CancelCommit(t) )
            => db[n].status = tasks[t].ls
        /\ (tasks[t].pc = "delivering" /\ DeliverFail(t))
            => db[n].attempt_count = tasks[t].lc]_vars

\* C30: for each notification the channel delivery succeeds at most once,
\* counting every delivery task enqueued for it.
C30_DeliveredAtMostOnce ==
    \A n \in NotifIds : Successes(n) <= 1

\* C31: the n-th retry execution of a delivery task reads attempt_count >= n:
\* each of the n failed attempts before it committed its increment before
\* the retry was scheduled.
C31_RetryReadsItsFailures ==
    \A t \in TaskIds :
        (tasks[t].kind = "deliver" /\ tasks[t].pc = "delivering")
            => tasks[t].lc >= tasks[t].retries

\* C38: for every instant t and zone z the result r of
\* get_next_appropriate_time(t, z) satisfies
\* is_within_appropriate_hours(r, z) and r >= t.
C38_AdjustedIsAppropriateAndLater ==
    (inp.fn = "get_next_appropriate_time" /\ Len(out) >= 1)
        => /\ IsWithinAppropriateHours(out[1], inp.z)
           /\ out[1] >= inp.t

\* C39: a delivery execution whose notification id is not in the table
\* returns False; it writes no row, does not call the channel, and is not
\* re-queued.
C39_MissingNotificationEndsExecution ==
    [][\A t \in TaskIds :
        ( /\ tasks[t].kind = "deliver" /\ tasks[t].pc = "queued"
          /\ Row(tasks[t].n).status = ABSENT
          /\ DeliverLoad(t) )
            => /\ tasks'[t].pc = "done" /\ tasks'[t].ret = "False"
               /\ tasks'[t].retries = 0
               /\ db' = db
               /\ calls' = calls
               /\ OnlyTask(t)
               /\ nextId' = nextId]_vars

C39_Witness ==
    \E t \in TaskIds :
        /\ tasks[t].kind = "deliver" /\ tasks[t].n = UnknownNotif
        /\ tasks[t].pc = "done" /\ tasks[t].ret = "False"
        /\ \A n \in NotifIds : calls[n] = 0

\* task t is in the channel call of a delivery attempt for notification n
Attempting(t, n) ==
    tasks[t].kind = "deliver" /\ tasks[t].n = n /\ tasks[t].pc = "delivering"

\* C37: attempt_count is 0 when the row is created; afterwards only a failed
\* delivery attempt changes it, and each failed attempt raises it by exactly
\* one (a success, a skipped execution, force and cancel leave it as it is).
C37_OnlyFailuresCount ==
    [][\A n \in NotifIds :
        /\ (db[n].status = ABSENT /\ db'[n].status # ABSENT)
            => db'[n].attempt_count = 0
        /\ (db[n].status # ABSENT /\ db'[n].attempt_count # db[n].attempt_count)
            => \E t \in TaskIds : Attempting(t, n) /\ DeliverFail(t)
        /\ \A t \in TaskIds :
            (Attempting(t, n) /\ DeliverFail(t))
                => db'[n].attempt_count = db[n].attempt_count + 1]_vars

\* C32: a schedule request that passed validation creates one notification,
\* SCHEDULED with attempt_count 0 and no task_id; its task then enqueues one
\* delivery task, for the channel of the notification, and the id of that
\* task is the task_id it commits.
C32_ValidRequestSchedulesOnce ==
    [][\A t \in TaskIds :
        LET n == tasks[t].n IN
        /\ (tasks[t].kind = "schedule" /\ tasks[t].pc = "queued" /\ ScheduleCreate(t))
            => /\ nextNotif' = nextNotif + 1
               /\ tasks'[t].n = nextNotif
               /\ db[nextNotif].status = ABSENT
               /\ db'[nextNotif].status = SCHEDULED
               /\ db'[nextNotif].attempt_count = 0
               /\ db'[nextNotif].task_id = NoTaskId
               /\ db'[nextNotif].channel = tasks[t].args.channel
               /\ \A m \in NotifIds \ {nextNotif} : db'[m] = db[m]
               /\ nextId' = nextId /\ OnlyTask(t)
        /\ (tasks[t].kind = "schedule" /\ tasks[t].pc = "created" /\ ScheduleEnqueue(t))
            => /\ nextId' = nextId + 1
               /\ tasks'[nextId].kind = "deliver" /\ tasks'[nextId].n = n
               /\ tasks'[nextId].pc = "queued"
               /\ tasks'[nextId].chan = db[n].channel
               /\ \A u \in TaskIds \ {t, nextId} : tasks'[u] = tasks[u]
               /\ db' = db
        /\ (tasks[t].kind = "schedule" /\ tasks[t].pc = "enqueued" /\ ScheduleSetTaskId(t))
            => /\ db'[n].task_id = tasks[t].lt
               /\ tasks[tasks[t].lt].kind = "deliver" /\ tasks[tasks[t].lt].n = n
               /\ db'[n].attempt_count = 0
               /\ tasks'[t].pc = "done"
               /\ nextId' = nextId /\ nextNotif' = nextNotif /\ OnlyTask(t)]_vars

C32_Witness ==
    \E t, d \in TaskIds, n \in NotifIds :
        /\ tasks[t].kind = "schedule" /\ tasks[t].pc = "done" /\ tasks[t].n = n
        /\ db[n].status = SCHEDULED /\ db[n].attempt_count = 0
        /\ db[n].channel = EMAIL /\ db[n].task_id = d
        /\ DeliveryTasks(n) = {d}
        /\ tasks[d].pc = "queued" /\ tasks[d].chan = EMAIL

\* C33: when the request supplies a scheduled time (a local date and time in
\* its timezone), the eta of the delivery task and the scheduled_time stored
\* with the notification are the same instant.
C33_EtaIsScheduledTime ==
    [][\A t \in TaskIds :
        ( /\ tasks[t].kind = "schedule" /\ tasks[t].pc = "created"
          /\ tasks[t].args.scheduled_time # NoTime
          /\ ScheduleEnqueue(t)
          /\ tasks'[t].pc = "enqueued" )
            => tasks'[nextId].eta = db[tasks[t].n].scheduled_time]_vars

\* C34: the id the schedule operation returned to its caller is the task_id
\* stored with the notification the request created.
C34_ReturnedIdIsTaskId ==
    [][\A t \in TaskIds :
        (tasks[t].kind = "schedule" /\ tasks[t].pc = "enqueued" /\ ScheduleSetTaskId(t))
            => db'[tasks[t].n].task_id = ScheduleHandle(t)]_vars

\* a force or cancel task exists for notification n
Intercepted(n) ==
    \E u \in TaskIds : tasks[u].kind \in {"force", "cancel"} /\ tasks[u].n = n

\* C35: when apply_async fails in schedule_notification after the row was
\* committed, the task raises; the row stays in the table as it was, which,
\* unless a force or cancel came in between, is SCHEDULED with attempt_count 0
\* and no task_id, and no delivery task exists for it.
C35_FailedEnqueueKeepsRow ==
    [][\A t \in TaskIds :
        LET n == tasks[t].n IN
        (tasks[t].kind = "schedule" /\ tasks[t].pc = "created" /\ ScheduleEnqueueFails(t))
            => /\ tasks'[t].pc = "done" /\ tasks'[t].ret = "raise"
               /\ db'[n].status # ABSENT
               /\ db' = db
               /\ nextId' = nextId /\ OnlyTask(t)
               /\ ~Intercepted(n)
                    => /\ db'[n].status = SCHEDULED
                       /\ db'[n].attempt_count = 0
                       /\ db'[n].task_id = NoTaskId
                       /\ DeliveryTasks(n)' = {}]_vars

C35_Witness ==
    \E t \in TaskIds, n \in NotifIds :
        /\ tasks[t].kind = "schedule" /\ tasks[t].pc = "done" /\ tasks[t].ret = "raise"
        /\ tasks[t].n = n
        /\ db[n].status = SCHEDULED /\ db[n].attempt_count = 0
        /\ db[n].task_id = NoTaskId
        /\ DeliveryTasks(n) = {}

\* C36: a force task that ended with the error of its enqueue does not leave
\* its notification in PROCESSING with no delivery task queued or running
\* for it.
C36_FailedForceLeavesNoOrphan ==
    \A t \in TaskIds :
        ( /\ tasks[t].kind = "force" /\ tasks[t].pc = "done"
          /\ tasks[t].ret = "raise"
          /\ db[tasks[t].n].status = PROCESSING )
            => \E d \in DeliveryTasks(tasks[t].n) : Live(d)

====
